---------------------------- MODULE Spec2Model ----------------------------
(***************************************************************************)
(* Model of src/IA_filtros.py: the PDF resume ranking pipeline             *)
(* (extraer_texto_pdf, extraer_nombre, limpiar_texto, analizar_candidatos).*)
(*                                                                         *)
(* A Python str is a sequence of characters; a character is a one-letter   *)
(* string.  The accented letters are written in ASCII: "a'" is a-acute,    *)
(* "e'", "i'", "o'", "u'" likewise, "n~" is n-tilde, and "A'" ... "N~" are *)
(* their capitals.                                                         *)
(***************************************************************************)
EXTENDS Integers, Sequences, FiniteSets, TLC

VARIABLES
    carpeta,      \* the folder on disk: "missing", or "dir" once it exists
    listing,      \* os.listdir(carpeta): the entries, in the order listed
    perfil,       \* perfil_ideal, the argument of analizar_candidatos
    csv,          \* ranking_monitores.csv on disk
    pc,           \* position in the call being modelled
    pdfs,         \* the local pdfs of analizar_candidatos
    visitados,    \* the pdfs the reading loop has gone through, in order
    candidatos,   \* the local candidatos
    df,           \* the DataFrame, once scored
    ret,          \* how the call ended: its return value, or the exception
    out,          \* the diagnostics printed, in order
    texto,        \* argument of the function called alone
    archivo,      \* second argument of extraer_nombre called alone
    res           \* the results of the function called alone, in order

vars == <<carpeta, listing, perfil, csv, pc, pdfs, visitados, candidatos, df,
          ret, out, texto, archivo, res>>

pipeline == <<carpeta, listing, perfil, csv, pdfs, visitados, candidatos, df,
              ret, out>>

-----------------------------------------------------------------------------
(* Characters and the str methods the program uses.                        *)

LowerCase ==
    <<"a", "b", "c", "d", "e", "f", "g", "h", "i", "j", "k", "l", "m", "n",
      "o", "p", "q", "r", "s", "t", "u", "v", "w", "x", "y", "z",
      "a'", "e'", "i'", "o'", "u'", "n~", "u:">>

UpperCase ==
    <<"A", "B", "C", "D", "E", "F", "G", "H", "I", "J", "K", "L", "M", "N",
      "O", "P", "Q", "R", "S", "T", "U", "V", "W", "X", "Y", "Z",
      "A'", "E'", "I'", "O'", "U'", "N~", "U:">>

Range(s) == {s[k] : k \in 1..Len(s)}

IsLower(c) == c \in Range(LowerCase)

IsUpper(c) == c \in Range(UpperCase)

IsCased(c) == IsLower(c) \/ IsUpper(c)

\* str.isspace() for one character; the regex class \s is the same set.
IsSpace(c) == c \in {" ", "\t", "\n", "\r", "\f"}

ToLower(c) ==
    IF IsUpper(c)
    THEN LowerCase[CHOOSE k \in 1..Len(UpperCase) : UpperCase[k] = c]
    ELSE c

ToUpper(c) ==
    IF IsLower(c)
    THEN UpperCase[CHOOSE k \in 1..Len(LowerCase) : LowerCase[k] = c]
    ELSE c

\* str.lower()
lower(s) == [k \in 1..Len(s) |-> ToLower(s[k])]

\* str.title(): a cased character is capitalised when the character before
\* it is not cased, and lowered when it is.
title(s) ==
    [k \in 1..Len(s) |->
        IF k > 1 /\ IsCased(s[k - 1]) THEN ToLower(s[k]) ELSE ToUpper(s[k])]

RECURSIVE lstrip(_)
lstrip(s) ==
    IF s # <<>> /\ IsSpace(Head(s)) THEN lstrip(Tail(s)) ELSE s

RECURSIVE rstrip(_)
rstrip(s) ==
    IF s # <<>> /\ IsSpace(s[Len(s)])
    THEN rstrip(SubSeq(s, 1, Len(s) - 1))
    ELSE s

\* str.strip()
strip(s) == rstrip(lstrip(s))

\* The longest prefix of s without whitespace.
RECURSIVE Word(_)
Word(s) ==
    IF s # <<>> /\ ~IsSpace(Head(s))
    THEN <<Head(s)>> \o Word(Tail(s))
    ELSE <<>>

\* str.split() with no separator: the maximal runs of non-whitespace.
RECURSIVE split(_)
split(s) ==
    LET t == lstrip(s)
        w == Word(t)
    IN  IF t = <<>>
        THEN <<>>
        ELSE <<w>> \o split(SubSeq(t, Len(w) + 1, Len(t)))

\* ' '.join(palabras)
RECURSIVE join(_)
join(palabras) ==
    IF palabras = <<>> THEN <<>>
    ELSE IF Len(palabras) = 1 THEN palabras[1]
    ELSE palabras[1] \o <<" ">> \o join(Tail(palabras))

\* ''.join(ss)
RECURSIVE Concat(_)
Concat(ss) == IF ss = <<>> THEN <<>> ELSE Head(ss) \o Concat(Tail(ss))

\* s.replace(a, b) for single characters a and b
replace(s, a, b) == [k \in 1..Len(s) |-> IF s[k] = a THEN b ELSE s[k]]

-----------------------------------------------------------------------------
(* limpiar_texto                                                           *)

STOP_WORDS ==
    { <<"e", "l">>, <<"l", "a">>, <<"d", "e">>,
      <<"e", "n">>, <<"y">>, <<"a">>,
      <<"l", "o", "s">>, <<"d", "e", "l">>, <<"s", "e">>,
      <<"l", "a", "s">>, <<"p", "o", "r">>, <<"u", "n">>,
      <<"p", "a", "r", "a">>, <<"c", "o", "n">>, <<"n", "o">>,
      <<"u", "n", "a">>, <<"s", "u">>, <<"a", "l">>,
      <<"e", "s">>, <<"l", "o">>, <<"c", "o", "m", "o">>,
      <<"m", "a'", "s">>, <<"o">>, <<"p", "e", "r", "o">>,
      <<"s", "u", "s">>, <<"l", "e">>, <<"y", "a">>,
      <<"f", "u", "e">>, <<"e", "s", "t", "e">>, <<"h", "a">>,
      <<"s", "i">>, <<"p", "o", "r", "q", "u", "e">>, <<"e", "s", "t", "a">>,
      <<"s", "o", "n">>, <<"e", "n", "t", "r", "e">>,
      <<"c", "u", "a", "n", "d", "o">>,
      <<"m", "u", "y">>, <<"s", "i", "n">>, <<"s", "o", "b", "r", "e">>,
      <<"t", "a", "m", "b", "i", "e'", "n">>, <<"m", "e">>,
      <<"h", "a", "s", "t", "a">>,
      <<"d", "o", "n", "d", "e">>, <<"q", "u", "i", "e", "n">>,
      <<"d", "e", "s", "d", "e">>,
      <<"n", "o", "s">>, <<"d", "u", "r", "a", "n", "t", "e">>,
      <<"t", "o", "d", "o", "s">>,
      <<"u", "n", "o">>, <<"l", "e", "s">>, <<"n", "i">>,
      <<"c", "o", "n", "t", "r", "a">>, <<"o", "t", "r", "o", "s">> }

\* The regex class [a-z a' e' i' o' u' n~]: the letters limpiar_texto and
\* extraer_nombre accept.  "u:" (u-diaeresis) is a lowercase letter outside it.
IsLetra(c) == IsLower(c) /\ c # "u:"

\* re.sub(r'[^a-z...\s]', ' ', texto)
SubNoLetra(s) ==
    [k \in 1..Len(s) |-> IF IsLetra(s[k]) \/ IsSpace(s[k]) THEN s[k] ELSE " "]

\* The condition of the comprehension: len(p) > 2 and p not in STOP_WORDS
Palabra(p) == Len(p) > 2 /\ p \notin STOP_WORDS

\* [p for p in palabras if len(p) > 2 and p not in STOP_WORDS]
RECURSIVE Palabras(_)
Palabras(ps) ==
    IF ps = <<>> THEN <<>>
    ELSE (IF Palabra(Head(ps)) THEN <<Head(ps)>> ELSE <<>>)
         \o Palabras(Tail(ps))

\* The statements in another order: the words are filtered before the
\* characters are cleaned.
limpiar_texto_filtro_antes(t) ==
    SubNoLetra(join(Palabras(split(lower(t)))))

limpiar_texto(t) ==
    join(Palabras(split(SubNoLetra(lower(t)))))

-----------------------------------------------------------------------------
(* extraer_nombre                                                          *)

\* Whether the literal lit stands in s at position p.
StartsWith(s, p, lit) ==
    /\ p >= 1
    /\ p + Len(lit) - 1 <= Len(s)
    /\ SubSeq(s, p, p + Len(lit) - 1) = lit

\* \s* from position p: the position after the whitespace run.
RECURSIVE SkipSpace(_, _)
SkipSpace(s, p) ==
    IF p <= Len(s) /\ IsSpace(s[p]) THEN SkipSpace(s, p + 1) ELSE p

\* [a-z...\s]* from position p: the position after the run.
RECURSIVE SkipNombre(_, _)
SkipNombre(s, p) ==
    IF p <= Len(s) /\ (IsLetra(s[p]) \/ IsSpace(s[p]))
    THEN SkipNombre(s, p + 1)
    ELSE p

\* nombre\s*(?:completo)?: tried at position p: the position after the colon,
\* 0 when it does not match there.  The whitespace run is taken whole (a
\* shorter one leaves a whitespace character where "c" or ":" must stand).
Etiqueta(s, p) ==
    LET a == SkipSpace(s, p + 6)
    IN  IF ~StartsWith(s, p, <<"n", "o", "m", "b", "r", "e">>) THEN 0
        ELSE IF StartsWith(s, a,
                     <<"c", "o", "m", "p", "l", "e", "t", "o", ":">>)
             THEN a + 9
        ELSE IF StartsWith(s, a, <<":">>) THEN a + 1
        ELSE 0

NoMatch == [found |-> FALSE, group |-> <<>>]

\* The whole pattern tried at position p.  After the colon \s* is greedy and
\* the group needs one character: when a letter follows the whitespace the
\* group is the run of letters and whitespace from it; when none does, \s*
\* gives back its last whitespace character and that is the group.
MatchAt(s, p) ==
    LET q == Etiqueta(s, p)
        b == SkipSpace(s, q)
        g == SkipNombre(s, b)
    IN  IF q = 0 THEN NoMatch
        ELSE IF g > b THEN [found |-> TRUE, group |-> SubSeq(s, b, g - 1)]
        ELSE IF b > q THEN [found |-> TRUE, group |-> SubSeq(s, b - 1, b - 1)]
        ELSE NoMatch

\* re.search: the match at the leftmost position that has one.
RECURSIVE SearchFrom(_, _)
SearchFrom(s, p) ==
    IF p > Len(s) THEN NoMatch
    ELSE IF MatchAt(s, p).found THEN MatchAt(s, p)
    ELSE SearchFrom(s, p + 1)

re_search_nombre(s) == SearchFrom(s, 1)

\* The last position of character c in s, 0 when there is none.
LastIndex(s, c) ==
    IF \E k \in 1..Len(s) : s[k] = c
    THEN CHOOSE k \in 1..Len(s) :
            s[k] = c /\ \A j \in (k + 1)..Len(s) : s[j] # c
    ELSE 0

\* os.path.basename
basename(p) == SubSeq(p, LastIndex(p, "/") + 1, Len(p))

\* os.path.splitext(p)[0] for p without a directory: cut at the last dot,
\* unless nothing but dots stands before it.
splitext_root(p) ==
    LET d == LastIndex(p, ".")
    IN  IF d = 0 \/ \A k \in 1..(d - 1) : p[k] = "."
        THEN p
        ELSE SubSeq(p, 1, d - 1)

\* re.sub(r'^(cv|hoja|vida)_?', '', nombre, flags=re.I)
sub_prefijo(nombre) ==
    LET l == lower(nombre)
        n == IF StartsWith(l, 1, <<"c", "v">>) THEN 2
             ELSE IF StartsWith(l, 1, <<"h", "o", "j", "a">>) THEN 4
             ELSE IF StartsWith(l, 1, <<"v", "i", "d", "a">>) THEN 4
             ELSE 0
        m == IF n > 0 /\ StartsWith(nombre, n + 1, <<"_">>) THEN n + 1 ELSE n
    IN  SubSeq(nombre, m + 1, Len(nombre))

extraer_nombre(t, a) ==
    LET match == re_search_nombre(lower(t))
    IN  IF match.found
        THEN title(strip(match.group))
        ELSE title(replace(sub_prefijo(splitext_root(basename(a))), "_", " "))

-----------------------------------------------------------------------------
(* extraer_texto_pdf                                                       *)

\* What a call of extraer_texto_pdf gives: None, a str, or an exception
\* that leaves the function.
None == [tipo |-> "None", valor |-> <<>>]

Some(t) == [tipo |-> "str", valor |-> t]

Raise == [tipo |-> "raise", valor |-> <<>>]

\* The truth value of a str-or-None: `if texto:`
Truthy(v) == v.tipo = "str" /\ v.valor # <<>>

MinChars == 50

\* An off-by-one slip in the threshold: >= in place of >.
extraer_texto_pdf_ge(pdf) ==
    IF ~pdf.legible THEN None
    ELSE IF Len(strip(Concat(pdf.paginas))) >= MinChars
         THEN Some(Concat(pdf.paginas))
         ELSE None

\* The function without its try/except: the exception leaves it.
extraer_texto_pdf_sin_except(pdf) ==
    IF ~pdf.legible THEN Raise
    ELSE IF Len(strip(Concat(pdf.paginas))) > MinChars
         THEN Some(Concat(pdf.paginas))
         ELSE None

\* A file on disk is legible (PyPDF2 reads it and gives the text of each
\* page) or not (open, PdfReader or extract_text raises): the except clause
\* turns every exception into None.
extraer_texto_pdf(pdf) ==
    IF ~pdf.legible THEN None
    ELSE IF Len(strip(Concat(pdf.paginas))) > MinChars
         THEN Some(Concat(pdf.paginas))
         ELSE None

-----------------------------------------------------------------------------
(* TfidfVectorizer(max_features=100, ngram_range=(1, 2)).fit_transform and *)
(* cosine_similarity, in fixed point.                                      *)

\* The tokens of a document.  On a text limpiar_texto returns (words of
\* three or more letters, single spaces) the token pattern \b\w\w+\b finds
\* exactly the words.
Tokens(doc) == split(doc)

\* The terms of a document: its words and its pairs of adjacent words.
Terms(doc) ==
    LET w == Tokens(doc)
    IN  {<<w[k]>> : k \in 1..Len(w)} \cup
        {<<w[k], w[k + 1]>> : k \in 1..(Len(w) - 1)}

\* How many times a term stands in a document.
Tf(term, doc) ==
    LET w == Tokens(doc)
    IN  Cardinality({k \in 1..(Len(w) - Len(term) + 1) :
                        SubSeq(w, k, k + Len(term) - 1) = term})

RECURSIVE SumOver(_, _)
SumOver(f, S) ==
    IF S = {} THEN 0
    ELSE LET x == CHOOSE y \in S : TRUE
         IN  f[x] + SumOver(f, S \ {x})

\* The terms of the whole corpus.
AllTerms(textos) == UNION {Terms(textos[k]) : k \in 1..Len(textos)}

max_features == 100

\* The vocabularies max_features allows: all the terms when they are no more
\* than max_features, else max_features of them with the highest counts over
\* the corpus (which of two equal counts is kept is the sort's choice).
Vocabularies(textos) ==
    LET all == AllTerms(textos)
        total == [t \in all |->
                    SumOver([k \in 1..Len(textos) |-> Tf(t, textos[k])],
                            1..Len(textos))]
    IN  IF Cardinality(all) <= max_features
        THEN {all}
        ELSE {K \in SUBSET all :
                /\ Cardinality(K) = max_features
                /\ \A a \in K, b \in all \ K : total[a] >= total[b]}

\* How many documents hold a term.
Df(term, textos) ==
    Cardinality({k \in 1..Len(textos) : term \in Terms(textos[k])})

\* 100 * (ln((1 + n) / (1 + df)) + 1), rounded: the smoothed idf of a term
\* found in df of n documents, in hundredths, for corpora of up to 6 texts.
IdfTabla ==
    << <<100>>,
       <<141, 100>>,
       <<169, 129, 100>>,
       <<192, 151, 122, 100>>,
       <<210, 169, 141, 118, 100>>,
       <<225, 185, 156, 134, 115, 100>> >>

Idf(term, textos) == IdfTabla[Len(textos)][Df(term, textos)]

\* One row of the tf-idf matrix, before its l2 normalisation (which the
\* cosine makes irrelevant): term -> tf * idf.
Fila(doc, V, textos) == [t \in V |-> Tf(t, doc) * Idf(t, textos)]

Dot(u, v, V) == SumOver([t \in V |-> u[t] * v[t]], V)

\* The integer square root.
RECURSIVE IsqrtIn(_, _, _)
IsqrtIn(x, lo, hi) ==
    IF lo >= hi THEN lo
    ELSE LET mid == (lo + hi + 1) \div 2
         IN  IF mid * mid <= x
             THEN IsqrtIn(x, mid, hi)
             ELSE IsqrtIn(x, lo, mid - 1)

Isqrt(x) == IsqrtIn(x, 0, x)

\* cosine_similarity of two rows, in hundredths rounded down; 0 when a row
\* is all zeros (sklearn's normalize leaves a zero row as it is).
Cosine(u, v, V) ==
    LET uu == Dot(u, u, V)
        vv == Dot(v, v, V)
        uv == Dot(u, v, V)
    IN  IF uu = 0 \/ vv = 0 THEN 0
        ELSE Isqrt(((100 * uv) \div uu) * ((100 * uv) \div vv))

\* similitudes: the profile (the last text) against each candidate text.
Similitudes(textos, V) ==
    LET n == Len(textos) - 1
    IN  [k \in 1..n |->
            Cosine(Fila(textos[n + 1], V, textos),
                   Fila(textos[k], V, textos), V)]

-----------------------------------------------------------------------------
(* The inputs of the functions called alone.                               *)

MaxLen == 4

\* Every str over the alphabet A of at most n characters.
Strings(A, n) == UNION {[1..k -> A] : k \in 0..n}

\* A cased letter of a stop word, a capital, an accented letter, a digit and
\* two kinds of whitespace.
AlfaLimpiar == {"l", "o", "s", "S", "a'", "7", " ", "\n"}

\* ranking_monitores.csv: absent, or left by an earlier run.
NoCsv == [existe |-> FALSE, filas |-> <<>>]

ViejoCsv ==
    [existe |-> TRUE,
     filas |-> <<[Nombre |-> <<"E", "v", "a">>,
                  Archivo |-> <<"e", "v", "a", ".", "p", "d", "f">>,
                  Score |-> 100]>>]

\* Pieces of longer texts: a word, a stop word, a capitalised word with an
\* accent, a short word, a digit, whitespace.
Piezas ==
    { <<"s", "o", "l">>, <<"l", "o", "s">>, <<"S", "o", "l", "a'">>,
      <<"s", "o">>, <<"7">>, <<" ">>, <<"\n", " ">> }

\* The texts made of at most MaxLen pieces.
Frases == {Concat(ps) : ps \in Strings(Piezas, MaxLen)}

\* The pipeline's variables while a function is called alone.
SinPipeline ==
    /\ carpeta = "dir"
    /\ listing = <<>>
    /\ perfil = <<>>
    /\ csv = NoCsv
    /\ pdfs = <<>>
    /\ visitados = <<>>
    /\ candidatos = <<>>
    /\ df = <<>>
    /\ ret = "running"
    /\ out = <<>>

-----------------------------------------------------------------------------
(* limpiar_texto called on a text, then on its own result.                 *)

InitLimpiar ==
    /\ SinPipeline
    /\ texto \in Strings(AlfaLimpiar, MaxLen) \cup Frases
    /\ archivo = <<>>
    /\ res = <<>>
    /\ pc = "call"

Limpiar ==
    /\ pc = "call"
    /\ res' = <<limpiar_texto(texto)>>
    /\ pc' = "once"
    /\ UNCHANGED <<pipeline, texto, archivo>>

LimpiarOtraVez ==
    /\ pc = "once"
    /\ res' = Append(res, limpiar_texto(res[1]))
    /\ pc' = "twice"
    /\ UNCHANGED <<pipeline, texto, archivo>>

NextLimpiar == Limpiar \/ LimpiarOtraVez

SpecLimpiar == InitLimpiar /\ [][NextLimpiar]_vars

\* A normalised text: accepted letters in words of three or more that are
\* no stop words, with one space between two words and none around.
Normalizado(t) ==
    /\ \A k \in 1..Len(t) : IsLetra(t[k]) \/ t[k] = " "
    /\ t # <<>> => t[1] # " " /\ t[Len(t)] # " "
    /\ \A k \in 1..(Len(t) - 1) : ~(t[k] = " " /\ t[k + 1] = " ")
    /\ \A k \in 1..Len(split(t)) :
          Len(split(t)[k]) >= 3 /\ split(t)[k] \notin STOP_WORDS

\* C5: limpiar_texto is idempotent: its result is a normalised text, and
\* normalising that result again returns it unchanged.
C5_Idempotent ==
    /\ pc \in {"once", "twice"} => Normalizado(res[1])
    /\ pc = "twice" => res[2] = res[1]

\* C5 witness: a text of four pieces, with a word, a stop word, a digit and
\* a capitalised word, was normalised twice and two words were left.
C5_Witness ==
    /\ pc = "twice"
    /\ texto = <<"s", "o", "l", "l", "o", "s", "7", "S", "o", "l", "a'">>
    /\ res[2] = <<"s", "o", "l", "l", "o", "s", " ", "s", "o", "l", "a'">>

-----------------------------------------------------------------------------
(* extraer_nombre called on a text and a file identifier.                  *)

\* The text of scenario D: "nombre: Ana Go'mez", a line break, "co'digo: 123".
EscenarioD ==
    <<"n", "o", "m", "b", "r", "e", ":", " ", "A", "n", "a", " ",
      "G", "o'", "m", "e", "z", "\n",
      "c", "o'", "d", "i", "g", "o", ":", " ", "1", "2", "3">>

\* What may stand before the name: no label, the label, the label with
\* "completo", with a capital, with a space before the colon.
Etiquetas ==
    { <<>>,
      <<"n", "o", "m", "b", "r", "e", ":">>,
      <<"N", "o", "m", "b", "r", "e", " ", "c", "o", "m", "p", "l", "e", "t",
        "o", ":", " ">>,
      <<"n", "o", "m", "b", "r", "e", " ", ":", " ">>,
      <<"n", "o", "m", "b", "r", "e", " ", "c", "o", "m", "p", "l", "e", "t",
        "o", " ", ":">> }

AlfaNombre == {"a", "N", " ", "\n", "1"}

TextosNombre ==
    {EscenarioD} \cup
    {e \o t : e \in Etiquetas, t \in Strings(AlfaNombre, MaxLen - 1)}

\* File identifiers: the one of scenario E, bare prefixes, a hidden file.
ArchivosNombre ==
    { <<"C", "V", "_", "J", "u", "a", "n", "_", "P", "e", "r", "e", "z",
        ".", "p", "d", "f">>,
      <<"c", "v", ".", "p", "d", "f">>,
      <<"H", "o", "j", "a", "_", ".", "p", "d", "f">>,
      <<"v", "i", "d", "a", "_", "_", "a", "n", "a", ".", "p", "d", "f">>,
      <<"a", "n", "a", ".", "g", ".", "p", "d", "f">>,
      <<".", "p", "d", "f">>,
      <<"_", ".", "p", "d", "f">>,
      <<"a", "n", "a">> }

InitNombre ==
    /\ SinPipeline
    /\ texto \in TextosNombre
    /\ archivo \in ArchivosNombre
    /\ res = <<>>
    /\ pc = "call"

Nombre ==
    /\ pc = "call"
    /\ res' = <<extraer_nombre(texto, archivo)>>
    /\ pc' = "ret"
    /\ UNCHANGED <<pipeline, texto, archivo>>

NextNombre == Nombre

SpecNombre == InitNombre /\ [][NextNombre]_vars

\* The first line of s.
RECURSIVE Linea(_)
Linea(s) ==
    IF s # <<>> /\ Head(s) # "\n"
    THEN <<Head(s)>> \o Linea(Tail(s))
    ELSE <<>>

\* C6: a name found after the label ends at the first line break, has its
\* whitespace runs collapsed to single spaces and its words title-cased;
\* scenario D resolves to "Ana Go'mez".
C6_NameEndsAtLineBreak ==
    pc = "ret" =>
        /\ re_search_nombre(lower(texto)).found =>
              /\ \A k \in 1..Len(res[1]) : res[1][k] # "\n"
              /\ res[1] = title(join(split(res[1])))
        /\ texto = EscenarioD =>
              res[1] = <<"A", "n", "a", " ", "G", "o'", "m", "e", "z">>

\* C7: extraer_nombre returns a non-empty display name for every text and
\* every non-empty file identifier.
C7_NameNonEmpty ==
    pc = "ret" /\ archivo # <<>> => res[1] # <<>>

-----------------------------------------------------------------------------
(* analizar_candidatos: the folders and profiles it is run on.             *)

MaxFiles == 3

\* n times the character c.
Rep(c, n) == [k \in 1..n |-> c]

Python == <<"p", "y", "t", "h", "o", "n">>

Datos == <<"d", "a", "t", "o", "s">>

Tutor == <<"t", "u", "t", "o", "r">>

Redes == <<"r", "e", "d", "e", "s">>

Pdf(ps) == [legible |-> TRUE, paginas |-> ps]

Ilegible == [legible |-> FALSE, paginas |-> <<>>]

\* The files a folder may hold, each with what PyPDF2 makes of it:
\*   ana.pdf            scenario D on page 1, skills and a phone number on
\*                      page 2 (neither page alone has 51 characters)
\*   CV_Juan_Perez.pdf  scenario E: skills and digits, no name label
\*   cv.pdf             51 digits: usable text, nothing left once normalised
\*   roto.pdf           a corrupt file
\*   corto.pdf          54 characters, 50 once trimmed
\*   justo.pdf          53 characters, 51 once trimmed, with the skills of
\*                      CV_Juan_Perez.pdf
\*   notas.txt          a long text that is no .pdf
Catalogo ==
    { [nombre |-> <<"a", "n", "a", ".", "p", "d", "f">>,
       pdf |-> Pdf(<<EscenarioD,
                     <<" ">> \o Python \o <<" ">> \o Datos \o <<" ">>
                        \o Tutor \o <<"\n">> \o Rep("7", 10)>>)],
      [nombre |-> <<"C", "V", "_", "J", "u", "a", "n", "_", "P", "e", "r",
                    "e", "z", ".", "p", "d", "f">>,
       pdf |-> Pdf(<<Python \o <<" ">> \o Datos \o <<" ">> \o Rep("7", 40)>>)],
      [nombre |-> <<"c", "v", ".", "p", "d", "f">>,
       pdf |-> Pdf(<<Rep("7", 51)>>)],
      [nombre |-> <<"r", "o", "t", "o", ".", "p", "d", "f">>,
       pdf |-> Ilegible],
      [nombre |-> <<"c", "o", "r", "t", "o", ".", "p", "d", "f">>,
       pdf |-> Pdf(<<<<" ", "\n">> \o Python \o Rep("7", 44) \o <<"\n", " ">>>>)],
      [nombre |-> <<"j", "u", "s", "t", "o", ".", "p", "d", "f">>,
       pdf |-> Pdf(<<<<"\n">> \o Python \o <<"-">> \o Datos \o Rep("7", 39)
                        \o <<" ">>>>)],
      [nombre |-> <<"n", "o", "t", "a", "s", ".", "t", "x", "t">>,
       pdf |-> Pdf(<<Python \o <<" ">> \o Rep("7", 60)>>)] }

\* What os.listdir may return: up to MaxFiles different files, in any order.
Listados ==
    {l \in UNION {[1..n -> Catalogo] : n \in 0..MaxFiles} :
        \A j, k \in 1..Len(l) : j # k => l[j].nombre # l[k].nombre}

\* Profiles: skills with punctuation and capitals; another skill; one that
\* is only stop words and digits.
Perfiles ==
    { <<"P">> \o Tail(Python) \o <<",", " ">> \o Datos \o <<" ", "y", " ">>
         \o Tutor \o <<" ", "4", ".", "0">>,
      <<"l", "a", "s", " ">> \o Redes \o <<" ", "D">> \o Tail(Datos),
      <<"e", "l", " ", "7", " ", "d", "e", " ", "l", "a">> }

Init ==
    /\ carpeta \in {"missing", "dir"}
    /\ listing \in IF carpeta = "missing" THEN {<<>>} ELSE Listados
    /\ perfil \in Perfiles
    /\ csv \in {NoCsv, ViejoCsv}
    /\ pc = "start"
    /\ pdfs = <<>>
    /\ visitados = <<>>
    /\ candidatos = <<>>
    /\ df = <<>>
    /\ ret = "running"
    /\ out = <<>>
    /\ texto = <<>>
    /\ archivo = <<>>
    /\ res = <<>>

-----------------------------------------------------------------------------
(* analizar_candidatos, step by step.                                      *)

EndsWith(s, lit) == StartsWith(s, Len(s) - Len(lit) + 1, lit)

\* [f for f in os.listdir(carpeta) if f.endswith('.pdf')]
RECURSIVE SoloPdf(_)
SoloPdf(l) ==
    IF l = <<>> THEN <<>>
    ELSE (IF EndsWith(Head(l).nombre, <<".", "p", "d", "f">>)
          THEN <<Head(l)>> ELSE <<>>) \o SoloPdf(Tail(l))

\* The folder is missing: it is created and the call returns None.
CarpetaNoExiste ==
    /\ pc = "start"
    /\ carpeta = "missing"
    /\ carpeta' = "dir"
    /\ out' = Append(out, "carpeta creada")
    /\ ret' = "None"
    /\ pc' = "done"
    /\ UNCHANGED <<listing, perfil, csv, pdfs, visitados, candidatos, df,
                   texto, archivo, res>>

\* The folder holds no .pdf entry: the call returns None.
SinPdfs ==
    /\ pc = "start"
    /\ carpeta # "missing"
    /\ SoloPdf(listing) = <<>>
    /\ out' = Append(out, "no hay archivos PDF")
    /\ ret' = "None"
    /\ pc' = "done"
    /\ UNCHANGED <<carpeta, listing, perfil, csv, pdfs, visitados, candidatos,
                   df, texto, archivo, res>>

\* The folder holds .pdf entries: the reading loop starts.
ListarPdfs ==
    /\ pc = "start"
    /\ carpeta # "missing"
    /\ SoloPdf(listing) # <<>>
    /\ pdfs' = SoloPdf(listing)
    /\ out' = Append(out, "PDFs encontrados")
    /\ pc' = "leer"
    /\ UNCHANGED <<carpeta, listing, perfil, csv, visitados, candidatos, df,
                   ret, texto, archivo, res>>

\* The dict appended for a pdf whose text is t.
Candidato(t, pdf) ==
    [Nombre |-> extraer_nombre(t, pdf.nombre),
     Archivo |-> pdf.nombre,
     Texto |-> limpiar_texto(t)]

\* One iteration of the reading loop.  An exception that left
\* extraer_texto_pdf would leave analizar_candidatos too: nothing here
\* catches it.
LeerPdf ==
    /\ pc = "leer"
    /\ Len(visitados) < Len(pdfs)
    /\ LET pdf == pdfs[Len(visitados) + 1]
           t == extraer_texto_pdf(pdf.pdf)
       IN  IF t.tipo = "raise"
           THEN /\ ret' = "Exception"
                /\ pc' = "done"
                /\ UNCHANGED <<visitados, candidatos, out>>
           ELSE /\ visitados' = Append(visitados, pdf)
                /\ candidatos' =
                      IF Truthy(t)
                      THEN Append(candidatos, Candidato(t.valor, pdf))
                      ELSE candidatos
                /\ out' = out
                      \o (IF pdf.pdf.legible THEN <<>> ELSE <<"Error en">>)
                      \o (IF Truthy(t) THEN <<"ok">> ELSE <<"fallo">>)
                /\ UNCHANGED <<pc, ret>>
    /\ UNCHANGED <<carpeta, listing, perfil, csv, pdfs, df, texto, archivo,
                   res>>

\* A slip: the export done before the check for candidates.
SinCandidatos_exporta ==
    /\ pc = "leer"
    /\ Len(visitados) = Len(pdfs)
    /\ candidatos = <<>>
    /\ out' = Append(out, "no se pudo procesar")
    /\ csv' = [existe |-> TRUE, filas |-> <<>>]
    /\ ret' = "None"
    /\ pc' = "done"
    /\ UNCHANGED <<carpeta, listing, perfil, pdfs, visitados, candidatos, df,
                   texto, archivo, res>>

\* The loop is over and no pdf gave a text: the call returns None.
SinCandidatos ==
    /\ pc = "leer"
    /\ Len(visitados) = Len(pdfs)
    /\ candidatos = <<>>
    /\ out' = Append(out, "no se pudo procesar")
    /\ ret' = "None"
    /\ pc' = "done"
    /\ UNCHANGED <<carpeta, listing, perfil, csv, pdfs, visitados, candidatos,
                   df, texto, archivo, res>>

\* df['Texto'].tolist() + [perfil_limpio]
Textos(cs, p) == [k \in 1..Len(cs) |-> cs[k].Texto] \o <<limpiar_texto(p)>>

\* The DataFrame with its Score column.
ConScore(cs, sim) ==
    [k \in 1..Len(cs) |->
        [Nombre |-> cs[k].Nombre, Archivo |-> cs[k].Archivo,
         Texto |-> cs[k].Texto, Score |-> sim[k]]]

\* The loop is over with candidates: the texts are vectorised and scored.
\* fit_transform raises ValueError("empty vocabulary; ...") when no text of
\* the corpus has a token; nothing in analizar_candidatos catches it.
Analizar ==
    /\ pc = "leer"
    /\ Len(visitados) = Len(pdfs)
    /\ candidatos # <<>>
    /\ LET textos == Textos(candidatos, perfil)
       IN  IF AllTerms(textos) = {}
           THEN /\ ret' = "ValueError"
                /\ pc' = "done"
                /\ out' = Append(out, "procesados")
                /\ df' = df
           ELSE /\ \E V \in Vocabularies(textos) :
                      df' = ConScore(candidatos, Similitudes(textos, V))
                /\ pc' = "ordenar"
                /\ out' = Append(out, "procesados")
                /\ ret' = ret
    /\ UNCHANGED <<carpeta, listing, perfil, csv, pdfs, visitados, candidatos,
                   texto, archivo, res>>

\* The orders of the rows of d: the permutations of 1..Len(d).
Ordenes(d) ==
    {o \in [1..Len(d) -> 1..Len(d)] :
        \A j, k \in 1..Len(d) : j # k => o[j] # o[k]}

\* A slip: the sorted frame is not assigned back to df.
sort_values_sin_asignar(d) == {d}

\* A slip: ascending=False left out.
sort_values_ascending(d) ==
    {[k \in 1..Len(d) |-> d[o[k]]] : o \in
        {o \in Ordenes(d) :
            \A k \in 1..(Len(d) - 1) : d[o[k]].Score <= d[o[k + 1]].Score}}

\* df.sort_values('Score', ascending=False).reset_index(drop=True): what it
\* may return.  No kind= is given, so the sort is pandas' default,
\* 'quicksort', which is not stable: rows of equal Score come in any order.
sort_values(d) ==
    {[k \in 1..Len(d) |-> d[o[k]]] : o \in
        {o \in Ordenes(d) :
            \A k \in 1..(Len(d) - 1) : d[o[k]].Score >= d[o[k + 1]].Score}}

Ordenar ==
    /\ pc = "ordenar"
    /\ df' \in sort_values(df)
    /\ out' = Append(out, "analisis completado")
    /\ pc' = "guardar"
    /\ UNCHANGED <<carpeta, listing, perfil, csv, pdfs, visitados, candidatos,
                   ret, texto, archivo, res>>

\* df[['Nombre', 'Archivo', 'Score']]
Columnas(d) ==
    [k \in 1..Len(d) |->
        [Nombre |-> d[k].Nombre, Archivo |-> d[k].Archivo,
         Score |-> d[k].Score]]

\* The ranking is printed, the recommendation is its first row, the file is
\* written and the DataFrame returned.
Guardar ==
    /\ pc = "guardar"
    /\ out' = out \o <<"ranking", "recomendado", "guardado">>
    /\ csv' = [existe |-> TRUE, filas |-> Columnas(df)]
    /\ ret' = "DataFrame"
    /\ pc' = "done"
    /\ UNCHANGED <<carpeta, listing, perfil, pdfs, visitados, candidatos, df,
                   texto, archivo, res>>

Next ==
    \/ CarpetaNoExiste
    \/ SinPdfs
    \/ ListarPdfs
    \/ LeerPdf
    \/ SinCandidatos
    \/ Analizar
    \/ Ordenar
    \/ Guardar

Spec == Init /\ [][Next]_vars

-----------------------------------------------------------------------------
(* Properties of analizar_candidatos.                                      *)

\* A file PyPDF2 reads, with 51 or more characters once trimmed.
ConTexto(e) ==
    e.pdf.legible /\ Len(strip(Concat(e.pdf.paginas))) >= 51

\* The names of the files among es that satisfy ConTexto.
ArchivosConTexto(es) ==
    {es[k].nombre : k \in {j \in 1..Len(es) : ConTexto(es[j])}}

Archivos(rows) == {rows[k].Archivo : k \in 1..Len(rows)}

\* The call is past its reading loop.
PasadoElBucle ==
    pc \in {"ordenar", "guardar"} \/ (pc = "done" /\ pdfs # <<>>)

\* C1: a failed extraction never aborts the reading loop: every pdf listed
\* is visited whichever of them fail, and a ranking that is returned has
\* exactly one row for each file that gave usable text and none for a file
\* that did not.
C1_PartialFailureIsolation ==
    /\ ret # "Exception"
    /\ PasadoElBucle => visitados = pdfs
    /\ ret = "DataFrame" =>
          /\ Archivos(df) = ArchivosConTexto(pdfs)
          /\ Len(df) = Cardinality(ArchivosConTexto(pdfs))

\* C1 witness: a ranking was returned for a folder whose first pdf is
\* corrupt and whose later pdfs gave text.
C1_Witness ==
    /\ ret = "DataFrame"
    /\ ~pdfs[1].pdf.legible
    /\ Len(pdfs) = 3
    /\ Len(df) = 2

\* C2: a pdf becomes a candidate exactly when its concatenated page text
\* has more than 50 characters once trimmed, its candidate text is that
\* concatenation normalised, and a pdf with fewer than 51 is in neither the
\* ranking nor the export.
C2_MinimumContent ==
    /\ \A k \in 1..Len(visitados) :
          (visitados[k].nombre \in Archivos(candidatos)) <=>
              ConTexto(visitados[k])
    /\ \A k \in 1..Len(candidatos) : \E j \in 1..Len(visitados) :
          /\ visitados[j].nombre = candidatos[k].Archivo
          /\ candidatos[k].Texto =
                limpiar_texto(Concat(visitados[j].pdf.paginas))
    /\ Archivos(df) \subseteq ArchivosConTexto(pdfs)
    /\ ret = "DataFrame" => Archivos(csv.filas) \subseteq ArchivosConTexto(pdfs)

\* C2 witness: a ranking was exported for a folder with a pdf of exactly 50
\* trimmed characters, left out, and one of exactly 51, ranked.
C2_Witness ==
    /\ ret = "DataFrame"
    /\ \E k \in 1..Len(pdfs) :
          /\ pdfs[k].pdf.legible
          /\ Len(strip(Concat(pdfs[k].pdf.paginas))) = 50
          /\ Len(Concat(pdfs[k].pdf.paginas)) > 50
          /\ pdfs[k].nombre \notin Archivos(csv.filas)
    /\ \E k \in 1..Len(pdfs) :
          /\ Len(strip(Concat(pdfs[k].pdf.paginas))) = 51
          /\ pdfs[k].nombre \in Archivos(csv.filas)

\* C3: a returned ranking is sorted by Score descending: each row's Score
\* is at least the next row's, and the first row, the recommendation, has
\* the highest Score of all candidates.
C3_SortedDescending ==
    pc \in {"guardar", "done"} /\ df # <<>> =>
        /\ \A k \in 1..(Len(df) - 1) : df[k].Score >= df[k + 1].Score
        /\ \A k \in 1..Len(df) : df[1].Score >= df[k].Score
        /\ Len(df) = Len(candidatos)

\* The row of the candidate enumerated k-th, and its place in the ranking.
Lugar(k) == CHOOSE j \in 1..Len(df) : df[j].Archivo = candidatos[k].Archivo

\* C3 witness: a ranking was returned whose last enumerated candidate has
\* a higher Score than the first and was moved before it.
C3_Witness ==
    /\ ret = "DataFrame"
    /\ Len(df) = 3
    /\ df[Lugar(3)].Score > df[Lugar(1)].Score
    /\ Lugar(3) < Lugar(1)

\* C4: a candidate whose normalised text is empty is given Score 0 by the
\* run, whatever the profile and the other candidates.
C4_EmptyTextScoresZero ==
    pc = "done" /\ candidatos # <<>> =>
        \A k \in 1..Len(candidatos) :
            candidatos[k].Texto = <<>> =>
                /\ ret = "DataFrame"
                /\ \E j \in 1..Len(df) :
                      /\ df[j].Archivo = candidatos[k].Archivo
                      /\ df[j].Score = 0

\* The early terminations: what each prints.
Diagnosticos ==
    {"carpeta creada", "no hay archivos PDF", "no se pudo procesar"}

\* C8: no step but the one that returns the ranking touches
\* ranking_monitores.csv, and each early termination (folder missing, no
\* .pdf entry, no pdf with text) prints its diagnostic and returns None,
\* changing nothing else on disk but the missing folder, which it creates.
C8_EarlyTerminationNoExport ==
    [][/\ ret' # "DataFrame" => csv' = csv
       /\ (pc = "start" /\ carpeta = "missing") =>
             /\ ret' = "None"
             /\ carpeta' = "dir"
             /\ out' = Append(out, "carpeta creada")
       /\ (pc = "start" /\ carpeta = "dir" /\ SoloPdf(listing) = <<>>) =>
             /\ ret' = "None"
             /\ out' = Append(out, "no hay archivos PDF")
       /\ (pc = "leer" /\ visitados = pdfs /\ ArchivosConTexto(pdfs) = {}) =>
             /\ ret' = "None"
             /\ out' = Append(out, "no se pudo procesar")
       /\ ret' = "None" =>
             /\ out'[Len(out')] \in Diagnosticos
             /\ listing' = listing
             /\ df' = <<>>
             /\ carpeta = "dir" => carpeta' = "dir"
      ]_vars

\* C8 witness: the call returned None after every pdf of the folder failed,
\* and the file left by an earlier run is as it was.
C8_Witness ==
    /\ pc = "done"
    /\ ret = "None"
    /\ Len(visitados) = 2
    /\ csv = ViejoCsv

\* The corpus has no token: every candidate text and the profile are empty
\* once normalised.
Degenerado ==
    candidatos # <<>> /\ AllTerms(Textos(candidatos, perfil)) = {}

\* C9: no run ends with an unhandled exception, and a run on a corpus
\* without a token reports an empty-corpus error and gives no scores.
C9_DegenerateCorpusReported ==
    pc = "done" =>
        /\ ret \in {"None", "DataFrame", "corpus vacio"}
        /\ Degenerado => ret = "corpus vacio" /\ df = <<>>

\* C10 as claimed: of two candidates with the same Score the one enumerated
\* first comes first in the ranking.
C10_StableTies ==
    pc \in {"guardar", "done"} /\ df # <<>> =>
        \A j, k \in 1..Len(candidatos) :
            j < k /\ df[Lugar(j)].Score = df[Lugar(k)].Score =>
                Lugar(j) < Lugar(k)

\* C10 amended: every enumerated candidate has exactly one row in the
\* ranking, and of two candidates with different Scores the one with the
\* higher Score comes first whichever was enumerated first; candidates with
\* the same Score come in either order.
C10_OrderUpToTies ==
    pc \in {"guardar", "done"} /\ df # <<>> =>
        /\ \A k \in 1..Len(candidatos) :
              Cardinality({j \in 1..Len(df) :
                              df[j].Archivo = candidatos[k].Archivo}) = 1
        /\ Len(df) = Len(candidatos)
        /\ \A j, k \in 1..Len(candidatos) :
              df[Lugar(j)].Score > df[Lugar(k)].Score => Lugar(j) < Lugar(k)

\* C10 witness: a ranking was returned in which the candidate enumerated
\* first has the lowest Score and stands last, and the two enumerated after
\* it have the same Score and stand in the reverse of their enumeration.
C10_Witness ==
    /\ ret = "DataFrame"
    /\ Len(df) = 3
    /\ df[Lugar(2)].Score = df[Lugar(3)].Score
    /\ Lugar(3) < Lugar(2)
    /\ df[Lugar(1)].Score < df[Lugar(2)].Score
    /\ Lugar(1) = 3

=============================================================================
